---- MODULE Spec2Model ----
(***************************************************************************)
(* Model of esp32.cpp: the serial Frame Reader (readArduinoData), the      *)
(* Command Parser (parseArduinoData), the Sensor State Store (sensorData)  *)
(* and the Snapshot Exporter (handleData), driven by the cooperative       *)
(* polling loop (loop).                                                    *)
(*                                                                         *)
(* Characters and bytes are their integer codes 0..255; an Arduino String  *)
(* is a sequence of character codes.                                       *)
(***************************************************************************)
EXTENDS Integers, Sequences, FiniteSets, TLC

VARIABLES
  sensorData,    \* struct SensorData sensorData
  serialBuffer,  \* String serialBuffer
  ffCount,       \* static int ffCount of readArduinoData
  rx,            \* bytes received on UART2 and not yet read (ArduinoSerial)
  now,           \* the value millis() returns
  pc,            \* position of loop(): which call comes next
  sent,          \* number of transmissions the Arduino has made so far
  run,           \* history: printable bytes received since the last terminator
  stray,         \* history: a run of one or two 0xFF was cut short inside the
                 \*          characters now in the buffer
  parses,        \* history: the parseArduinoData calls of the last step
  peak,          \* history: the largest buffer length and delimiter count
                 \*          left by any byte of the last step
  cuts,          \* history: the iterations of the last step that read a
                 \*          non-delimiter byte right after one or two 0xFF
  response,      \* history: the JSON documents sent by the last step
  latest,        \* history: per field, the value carried by the most recent
                 \*          accepted message
  trace          \* history, kept when trace.on: all bytes read, all
                 \*          parseArduinoData calls made and the number of
                 \*          readArduinoData calls that found bytes waiting

vars ==
  <<sensorData, serialBuffer, ffCount, rx, now, pc, sent, run, stray, parses,
    peak, cuts, response, latest, trace>>

-----------------------------------------------------------------------------
(* Bounds of the model *)

MaxSends == 4
MaxFrames == 3
MaxChunks == 3
MaxTime == 2
MaxTraceTime == 1

-----------------------------------------------------------------------------
(* Program constants *)

BufferCap == 100
Delimiter == 255
DelimiterRun == 3
PrintableLo == 32
PrintableHi == 126
LongMax == 2147483647

Fields == {"co2", "pm25", "o3", "temp", "hum", "tvoc"}

\* "co2V.val="
Pco2 == <<99,111,50,86,46,118,97,108,61>>
\* "pm25V.val="
Ppm25 == <<112,109,50,53,86,46,118,97,108,61>>
\* "o3V.val="
Po3 == <<111,51,86,46,118,97,108,61>>
\* "tempV.val="
Ptemp == <<116,101,109,112,86,46,118,97,108,61>>
\* "humV.val="
Phum == <<104,117,109,86,46,118,97,108,61>>
\* "tvocV.val="
Ptvoc == <<116,118,111,99,86,46,118,97,108,61>>

-----------------------------------------------------------------------------
(* Arduino String operations used by the parser *)

\* startsWith without the length test: a String shorter than the prefix is
\* compared over its own length only
startsWith_NoLengthTest(data, prefix) ==
  \A i \in 1..Len(prefix) : i <= Len(data) => data[i] = prefix[i]

\* String::startsWith(prefix): false when data is shorter than the prefix,
\* otherwise a comparison of the first Len(prefix) characters.
startsWith(data, prefix) ==
  /\ Len(data) >= Len(prefix)
  /\ \A i \in 1..Len(prefix) : data[i] = prefix[i]

\* substring taking beginIndex as the index of the last character left out
substring_SkipsOne(data, beginIndex) ==
  IF beginIndex + 1 >= Len(data) THEN <<>>
  ELSE SubSeq(data, beginIndex + 2, Len(data))

\* String::substring(beginIndex): the characters from beginIndex (0-based) to
\* the end; the empty String when beginIndex is past the end.
substring(data, beginIndex) ==
  IF beginIndex >= Len(data) THEN <<>>
  ELSE SubSeq(data, beginIndex + 1, Len(data))

isspace(c) == c = 32 \/ (c >= 9 /\ c <= 13)
isdigit(c) == c >= 48 /\ c <= 57

RECURSIVE SkipSpace(_, _)
SkipSpace(s, i) ==
  IF i <= Len(s) /\ isspace(s[i]) THEN SkipSpace(s, i + 1) ELSE i

\* The magnitude of the digit run starting at s[i]. atol is strtol on this
\* platform, which clamps at LONG_MAX on overflow (32-bit long); the clamp of a
\* negative number is taken as -LongMax, one above LONG_MIN.
RECURSIVE Magnitude(_, _, _)
Magnitude(s, i, acc) ==
  IF i > Len(s) \/ ~isdigit(s[i]) THEN acc
  ELSE LET d == s[i] - 48
       IN IF acc > (LongMax - d) \div 10
            THEN LongMax
            ELSE Magnitude(s, i + 1, acc * 10 + d)

\* toInt reporting a failed conversion as -1
toInt_FailsNegative(s) ==
  LET i == SkipSpace(s, 1)
      neg == i <= Len(s) /\ s[i] = 45
      j == IF i <= Len(s) /\ (s[i] = 45 \/ s[i] = 43) THEN i + 1 ELSE i
      m == Magnitude(s, j, 0)
  IN IF j > Len(s) \/ ~isdigit(s[j]) THEN -1
     ELSE IF neg THEN 0 - m ELSE m

\* String::toInt(): atol of the characters: leading white space skipped, an
\* optional sign, then decimal digits up to the first other character; 0 when
\* there is no digit.
toInt(s) ==
  LET i == SkipSpace(s, 1)
      neg == i <= Len(s) /\ s[i] = 45
      j == IF i <= Len(s) /\ (s[i] = 45 \/ s[i] = 43) THEN i + 1 ELSE i
      m == Magnitude(s, j, 0)
  IN IF neg THEN 0 - m ELSE m

-----------------------------------------------------------------------------
(* Sensor State Store *)

\* struct SensorData's member initialisers
InitSensorData ==
  [co2 |-> 0, pm25 |-> 0, o3 |-> 0, temp |-> 0, hum |-> 0, tvoc |-> 0,
   lastUpdate |-> 0]

-----------------------------------------------------------------------------
(* Command Parser *)

\* Sanity checks with one end of the range off by one
co2Sane_UpperInclusive(value) == value > 0 /\ value <= 10000
tempSane_LowerExclusive(value) == value > -52 /\ value < 100
humSane_LowerOff(value) == value >= -1 /\ value <= 100

\* the "Sanity check" conditions of the six branches
co2Sane(value) == value > 0 /\ value < 10000
pm25Sane(value) == value >= 0 /\ value < 2000
o3Sane(value) == value >= 0 /\ value < 2000
tempSane(value) == value >= -50 /\ value < 100
humSane(value) == value >= 0 /\ value <= 100
tvocSane(value) == value >= 0 /\ value < 2000

\* The accepted branch body without the field assignment
Store_OnlyStamps(sd, field, value, t) ==
  [sd |-> [sd EXCEPT !.lastUpdate = t],
   wrote |-> <<field, value>>]

\* The accepted branch body skipping the assignments when the field already
\* holds the value
Store_SkipsSameValue(sd, field, value, t) ==
  IF sd[field] = value
    THEN [sd |-> sd, wrote |-> <<field, value>>]
    ELSE [sd |-> [sd EXCEPT ![field] = value, !.lastUpdate = t],
          wrote |-> <<field, value>>]

\* One accepted branch body: the field assignment, then lastUpdate = millis().
\* wrote records the field assignment performed.
Store(sd, field, value, t) ==
  [sd |-> [sd EXCEPT ![field] = value, !.lastUpdate = t],
   wrote |-> <<field, value>>]

\* A branch whose sanity check fails, or the final else: nothing is assigned.
NoStore(sd) == [sd |-> sd, wrote |-> <<>>]

\* parseArduinoData with the tvoc branch assigning the o3 field
parseArduinoData_TvocIntoO3(data, sd, t) ==
  IF startsWith(data, Pco2) THEN
    LET value == toInt(substring(data, 9))
    IN IF co2Sane(value) THEN Store(sd, "co2", value, t) ELSE NoStore(sd)
  ELSE IF startsWith(data, Ppm25) THEN
    LET value == toInt(substring(data, 10))
    IN IF pm25Sane(value) THEN Store(sd, "pm25", value, t) ELSE NoStore(sd)
  ELSE IF startsWith(data, Po3) THEN
    LET value == toInt(substring(data, 8))
    IN IF o3Sane(value) THEN Store(sd, "o3", value, t) ELSE NoStore(sd)
  ELSE IF startsWith(data, Ptemp) THEN
    LET value == toInt(substring(data, 10))
    IN IF tempSane(value) THEN Store(sd, "temp", value, t) ELSE NoStore(sd)
  ELSE IF startsWith(data, Phum) THEN
    LET value == toInt(substring(data, 9))
    IN IF humSane(value) THEN Store(sd, "hum", value, t) ELSE NoStore(sd)
  ELSE IF startsWith(data, Ptvoc) THEN
    LET value == toInt(substring(data, 10))
    IN IF tvocSane(value) THEN Store(sd, "o3", value, t) ELSE NoStore(sd)
  ELSE NoStore(sd)

\* parseArduinoData(data) on store sd with millis() = t
parseArduinoData(data, sd, t) ==
  IF startsWith(data, Pco2) THEN
    LET value == toInt(substring(data, 9))
    IN IF co2Sane(value) THEN Store(sd, "co2", value, t) ELSE NoStore(sd)
  ELSE IF startsWith(data, Ppm25) THEN
    LET value == toInt(substring(data, 10))
    IN IF pm25Sane(value) THEN Store(sd, "pm25", value, t) ELSE NoStore(sd)
  ELSE IF startsWith(data, Po3) THEN
    LET value == toInt(substring(data, 8))
    IN IF o3Sane(value) THEN Store(sd, "o3", value, t) ELSE NoStore(sd)
  ELSE IF startsWith(data, Ptemp) THEN
    LET value == toInt(substring(data, 10))
    IN IF tempSane(value) THEN Store(sd, "temp", value, t) ELSE NoStore(sd)
  ELSE IF startsWith(data, Phum) THEN
    LET value == toInt(substring(data, 9))
    IN IF humSane(value) THEN Store(sd, "hum", value, t) ELSE NoStore(sd)
  ELSE IF startsWith(data, Ptvoc) THEN
    LET value == toInt(substring(data, 10))
    IN IF tvocSane(value) THEN Store(sd, "tvoc", value, t) ELSE NoStore(sd)
  ELSE NoStore(sd)

-----------------------------------------------------------------------------
(* Frame Reader *)

\* The printable test letting DEL (127) through
IsPrintable_IncludesDel(inByte) ==
  inByte >= PrintableLo /\ inByte <= PrintableHi + 1

\* inByte >= 32 && inByte <= 126
IsPrintable(inByte) == inByte >= PrintableLo /\ inByte <= PrintableHi

\* The overflow test off by one
BufferOverflow_OffByOne(buf) == Len(buf) > BufferCap + 1

\* serialBuffer.length() > 100
BufferOverflow(buf) == Len(buf) > BufferCap

NoPeak == [len |-> 0, ff |-> 0, ffOther |-> -1, ffCleared |-> -1]

\* The reader's state while it drains the UART: the buffer, the delimiter
\* counter and the store, with the history of the poll (run: printable bytes
\* since the last terminator, counted up to BufferCap + 1; stray: a non-delimiter
\* byte followed one or two 0xFF while the buffer held characters; log: one
\* entry per parseArduinoData call; peak, cuts: see Observe).
ReaderState(buf, ff, sd, r, s) ==
  [buf |-> buf, ff |-> ff, sd |-> sd, run |-> r, stray |-> s, log |-> <<>>,
   peak |-> NoPeak, cuts |-> <<>>]

\* The branch with the counter reset only when a message was handed over
EndOfMessage_ResetInsideIf(st, t) ==
  IF Len(st.buf) > 0
    THEN LET p == parseArduinoData(st.buf, st.sd, t)
         IN [st EXCEPT !.sd = p.sd,
                       !.buf = <<>>,
                       !.ff = 0,
                       !.run = 0,
                       !.stray = FALSE,
                       !.log = Append(@, [msg |-> st.buf, before |-> st.sd,
                                          after |-> p.sd, wrote |-> p.wrote,
                                          t |-> t, run |-> st.run,
                                          stray |-> st.stray])]
    ELSE [st EXCEPT !.ff = st.ff + 1, !.run = 0, !.stray = FALSE]

\* The branch with the buffer left as it is after the parser's call
EndOfMessage_KeepsBuffer(st, t) ==
  IF Len(st.buf) > 0
    THEN LET p == parseArduinoData(st.buf, st.sd, t)
         IN [st EXCEPT !.sd = p.sd,
                       !.ff = 0,
                       !.run = 0,
                       !.stray = FALSE,
                       !.log = Append(@, [msg |-> st.buf, before |-> st.sd,
                                          after |-> p.sd, wrote |-> p.wrote,
                                          t |-> t, run |-> st.run,
                                          stray |-> st.stray])]
    ELSE [st EXCEPT !.ff = 0, !.run = 0, !.stray = FALSE]

\* The branch taken on the third consecutive 0xFF
EndOfMessage(st, t) ==
  IF Len(st.buf) > 0
    THEN LET p == parseArduinoData(st.buf, st.sd, t)
         IN [st EXCEPT !.sd = p.sd,
                       !.buf = <<>>,
                       !.ff = 0,
                       !.run = 0,
                       !.stray = FALSE,
                       !.log = Append(@, [msg |-> st.buf, before |-> st.sd,
                                          after |-> p.sd, wrote |-> p.wrote,
                                          t |-> t, run |-> st.run,
                                          stray |-> st.stray])]
    ELSE [st EXCEPT !.ff = 0, !.run = 0, !.stray = FALSE]

\* The iteration without the reset of the counter on a non-delimiter byte
ProcessByte_KeepsCount(inByte, st, t) ==
  LET read ==
        IF inByte = Delimiter
          THEN IF st.ff + 1 >= DelimiterRun
                 THEN EndOfMessage(st, t)
                 ELSE [st EXCEPT !.ff = st.ff + 1]
          ELSE LET cut == st.stray \/ (st.ff > 0 /\ Len(st.buf) > 0)
               IN IF IsPrintable(inByte)
                    THEN [st EXCEPT !.buf = Append(@, inByte),
                                    !.run = IF @ > BufferCap THEN @ ELSE @ + 1,
                                    !.stray = cut]
                    ELSE [st EXCEPT !.stray = cut]
  IN IF BufferOverflow(read.buf)
       THEN [read EXCEPT !.buf = <<>>, !.ff = 0, !.stray = FALSE]
       ELSE read

\* The iteration ending the message on the fourth consecutive 0xFF
ProcessByte_LateEnd(inByte, st, t) ==
  LET read ==
        IF inByte = Delimiter
          THEN IF st.ff + 1 > DelimiterRun
                 THEN EndOfMessage(st, t)
                 ELSE [st EXCEPT !.ff = st.ff + 1]
          ELSE LET cut == st.stray \/ (st.ff > 0 /\ Len(st.buf) > 0)
               IN IF IsPrintable(inByte)
                    THEN [st EXCEPT !.ff = 0,
                                    !.buf = Append(@, inByte),
                                    !.run = IF @ > BufferCap THEN @ ELSE @ + 1,
                                    !.stray = cut]
                    ELSE [st EXCEPT !.ff = 0, !.stray = cut]
  IN IF BufferOverflow(read.buf)
       THEN [read EXCEPT !.buf = <<>>, !.ff = 0, !.stray = FALSE]
       ELSE read

\* One iteration of the while loop on byte inByte with millis() = t
ProcessByte(inByte, st, t) ==
  LET read ==
        IF inByte = Delimiter
          THEN IF st.ff + 1 >= DelimiterRun
                 THEN EndOfMessage(st, t)
                 ELSE [st EXCEPT !.ff = st.ff + 1]
          ELSE LET cut == st.stray \/ (st.ff > 0 /\ Len(st.buf) > 0)
               IN IF IsPrintable(inByte)
                    THEN [st EXCEPT !.ff = 0,
                                    !.buf = Append(@, inByte),
                                    !.run = IF @ > BufferCap THEN @ ELSE @ + 1,
                                    !.stray = cut]
                    ELSE [st EXCEPT !.ff = 0, !.stray = cut]
  IN IF BufferOverflow(read.buf)
       THEN [read EXCEPT !.buf = <<>>, !.ff = 0, !.stray = FALSE]
       ELSE read

Max(a, b) == IF a >= b THEN a ELSE b

\* History of one iteration, which read inByte in state st and left state
\* next: the largest buffer length and counter seen so far, the largest
\* counter left by an iteration on a non-delimiter byte (ffOther) and by an
\* iteration that emptied the buffer, for the parser or on overflow
\* (ffCleared), both -1 while there was no such iteration, and, when a
\* non-delimiter byte found the counter above 0, what the iteration did.
Observe(inByte, st, next) ==
  [next EXCEPT
     !.peak = [len |-> Max(@.len, Len(next.buf)),
               ff |-> Max(@.ff, next.ff),
               ffOther |-> IF inByte # Delimiter
                             THEN Max(@.ffOther, next.ff) ELSE @.ffOther,
               ffCleared |-> IF Len(st.buf) > 0 /\ Len(next.buf) = 0
                               THEN Max(@.ffCleared, next.ff)
                               ELSE @.ffCleared],
     !.cuts = IF inByte # Delimiter /\ st.ff > 0
                THEN Append(@, [byte |-> inByte, buf |-> st.buf, ff |-> st.ff,
                                bufAfter |-> next.buf, ffAfter |-> next.ff,
                                calls |-> Len(next.log) - Len(st.log)])
                ELSE @]

\* while (ArduinoSerial.available()): the iterations on bytes[lo..hi], in
\* arrival order. The range is halved so that the evaluation does not nest one
\* level per byte, and the test of first.ff, which is always true, makes the
\* first half be evaluated before the second.
RECURSIVE DrainRange(_, _, _, _, _)
DrainRange(bytes, lo, hi, st, t) ==
  IF lo > hi THEN st
  ELSE IF lo = hi THEN Observe(bytes[lo], st, ProcessByte(bytes[lo], st, t))
  ELSE LET mid == (lo + hi) \div 2
           first == DrainRange(bytes, lo, mid, st, t)
       IN IF first.ff >= 0
            THEN DrainRange(bytes, mid + 1, hi, first, t)
            ELSE first

\* The whole loop on the bytes available
Drain(bytes, st, t) == DrainRange(bytes, 1, Len(bytes), st, t)

-----------------------------------------------------------------------------
(* Snapshot Exporter *)

\* The document with the store's lastUpdate in place of millis()
JsonDoc_StoreTime(sd, t) ==
  [co2 |-> sd.co2, pm25 |-> sd.pm25, o3 |-> sd.o3, temp |-> sd.temp,
   hum |-> sd.hum, tvoc |-> sd.tvoc, lastUpdate |-> sd.lastUpdate]

\* The JsonDocument handleData fills: the six fields of the store and
\* "lastUpdate" = millis()
JsonDoc(sd, t) ==
  [co2 |-> sd.co2, pm25 |-> sd.pm25, o3 |-> sd.o3, temp |-> sd.temp,
   hum |-> sd.hum, tvoc |-> sd.tvoc, lastUpdate |-> t]

\* handleData that also stamps the store with the export time
handleData_StampsStore ==
  /\ response' = <<[co2 |-> sensorData.co2, pm25 |-> sensorData.pm25,
                    o3 |-> sensorData.o3, temp |-> sensorData.temp,
                    hum |-> sensorData.hum, tvoc |-> sensorData.tvoc,
                    lastUpdate |-> now]>>
  /\ sensorData' = [sensorData EXCEPT !.lastUpdate = now]
  /\ UNCHANGED <<serialBuffer, ffCount, rx>>

\* handleData(): builds the document and sends it; the store is only read
handleData ==
  /\ response' = <<JsonDoc(sensorData, now)>>
  /\ UNCHANGED <<sensorData, serialBuffer, ffCount, rx>>

-----------------------------------------------------------------------------
(* What the Arduino transmits *)

FF == <<Delimiter>>
Terminator == <<Delimiter, Delimiter, Delimiter>>

\* BufferCap printable characters ('x')
Filler == [i \in 1..BufferCap |-> 120]

\* bytes that are neither printable nor the delimiter: NUL, US, DEL, 0x80
Noise == <<0, 31, 127, 128>>

\* Transmissions of the byte-stream specification: message parts, stray and
\* complete delimiter runs, noise and an over-long run
StreamTokens ==
  { Pco2 \o <<53,50,51>>,            \* "co2V.val=523"
    <<102,111,111,46,118,97,108,61,49>>,  \* "foo.val=1"
    <<116,101,109,112>>,             \* "temp"
    <<86,46,118,97,108,61,50,49>>,   \* "V.val=21"
    FF, Terminator, Noise, Filler }

\* Transmissions of the frame specification: complete frames, one message and
\* its terminator each. The payloads after a recognised prefix are the values
\* around both ends of the field's range and some that are no plain number.
Payloads(prefix) ==
  CASE prefix = Pco2 ->
         \* "0", "1", "9999", "10000", "abc", "99999999999", " +7", "523ppm"
         {<<48>>, <<49>>, <<57,57,57,57>>, <<49,48,48,48,48>>, <<97,98,99>>,
          <<57,57,57,57,57,57,57,57,57,57,57>>, <<32,43,55>>,
          <<53,50,51,112,112,109>>}
    [] prefix = Ppm25 ->
         \* "-1", "0", "1999", "2000", "abc"
         {<<45,49>>, <<48>>, <<49,57,57,57>>, <<50,48,48,48>>, <<97,98,99>>}
    [] prefix = Ptemp ->
         \* "-51", "-50", "99", "100", "-99999999999", "-"
         {<<45,53,49>>, <<45,53,48>>, <<57,57>>, <<49,48,48>>,
          <<45,57,57,57,57,57,57,57,57,57,57,57>>, <<45>>}
    [] prefix = Phum ->
         \* "-1", "0", "100", "101", "150", ""
         {<<45,49>>, <<48>>, <<49,48,48>>, <<49,48,49>>, <<49,53,48>>, <<>>}
    [] OTHER ->
         \* o3, tvoc: "-1", "0", "1999", "2000", "abc"
         {<<45,49>>, <<48>>, <<49,57,57,57>>, <<50,48,48,48>>, <<97,98,99>>}

Prefixes == {Pco2, Ppm25, Po3, Ptemp, Phum, Ptvoc}

UnknownMessages ==
  { <<102,111,111,46,118,97,108,61,49>>,         \* "foo.val=1"
    <<116,101,109,112>>,                         \* "temp"
    <<99,111,50,86,46,118,97,108>>,              \* "co2V.val"
    <<67,79,50,86,46,118,97,108,61,53>>,         \* "CO2V.val=5"
    <<32,104,117,109,86,46,118,97,108,61,53>> }  \* " humV.val=5"

FrameMessages ==
  UNION {{p \o v : v \in Payloads(p)} : p \in Prefixes} \cup UnknownMessages

FrameTokens == {m \o Terminator : m \in FrameMessages}

\* Transmissions of the traced specification: pieces of a message and of a
\* terminator and two whole frames, which arrive in any grouping
ChunkTokens ==
  { Pco2 \o <<53>>,                    \* "co2V.val=5"
    <<50,51>>,                         \* "23"
    FF,
    <<Delimiter, Delimiter>>,
    Phum \o <<52,48>> \o Terminator,   \* "humV.val=40" and its terminator
    Ptemp \o <<45,55>> \o Terminator } \* "tempV.val=-7" and its terminator

-----------------------------------------------------------------------------
(* The specification's field table, used to state the properties *)

\* The declared plausible range of each field
DeclaredRange(f) ==
  CASE f = "co2" -> 1..9999
    [] f = "pm25" -> 0..1999
    [] f = "o3" -> 0..1999
    [] f = "temp" -> -50..99
    [] f = "hum" -> 0..100
    [] f = "tvoc" -> 0..1999

\* The recognised prefix of each field
DeclaredPrefix(f) ==
  CASE f = "co2" -> Pco2
    [] f = "pm25" -> Ppm25
    [] f = "o3" -> Po3
    [] f = "temp" -> Ptemp
    [] f = "hum" -> Phum
    [] f = "tvoc" -> Ptvoc

\* msg begins with the prefix of field f
Targets(msg, f) ==
  LET n == Len(DeclaredPrefix(f))
  IN Len(msg) >= n /\ SubSeq(msg, 1, n) = DeclaredPrefix(f)

Recognised(msg) == \E f \in Fields : Targets(msg, f)

\* The integer a message carries for field f: its numeric suffix, parsed
Carried(msg, f) == toInt(SubSeq(msg, Len(DeclaredPrefix(f)) + 1, Len(msg)))

\* History: the record of accepted messages after the calls of log, given the
\* record before them: per field, the value the most recent accepted message
\* carried (0 when there was none).
RECURSIVE Accept(_, _, _)
Accept(acc, log, i) ==
  IF i > Len(log) THEN acc
  ELSE LET hits == {f \in Fields : /\ Targets(log[i].msg, f)
                                   /\ Carried(log[i].msg, f) \in DeclaredRange(f)}
           next == [f \in Fields |->
                      IF f \in hits THEN Carried(log[i].msg, f) ELSE acc[f]]
       IN Accept(next, log, i + 1)

-----------------------------------------------------------------------------
(* The program *)

\* The state after construction; tracing tells whether the trace is kept
InitWith(tracing) ==
  /\ trace = [on |-> tracing, stream |-> <<>>, calls |-> <<>>, polls |-> 0]
  /\ sensorData = InitSensorData
  /\ serialBuffer = <<>>
  /\ ffCount = 0
  /\ rx = <<>>
  /\ now = 0
  /\ pc = "handleClient"
  /\ sent = 0
  /\ run = 0
  /\ stray = FALSE
  /\ parses = <<>>
  /\ peak = NoPeak
  /\ cuts = <<>>
  /\ response = <<>>
  /\ latest = [f \in Fields |-> 0]

Init == InitWith(FALSE)

Requests == {"none", "/data", "/", "/style.css"}

\* loop(): server.handleClient() dispatches at most one pending request; only
\* the "/data" route reaches the store (the static routes stream files)
handleClient ==
  /\ pc = "handleClient"
  /\ pc' = "readArduinoData"
  /\ \E req \in Requests :
       IF req = "/data"
         THEN handleData
         ELSE /\ response' = <<>>
              /\ UNCHANGED <<sensorData, serialBuffer, ffCount, rx>>
  /\ parses' = <<>>
  /\ peak' = NoPeak
  /\ cuts' = <<>>
  /\ UNCHANGED <<now, sent, run, stray, latest, trace>>

\* A delimiter counter that is an automatic variable, 0 at every call
EntryCount_Automatic(ff) == 0

\* static int ffCount = 0: the counter readArduinoData starts with is the one
\* its previous call left
EntryCount(ff) == ff

\* loop(): readArduinoData() drains the bytes available and returns
readArduinoData ==
  /\ pc = "readArduinoData"
  /\ pc' = "handleClient"
  /\ LET st == Drain(rx, ReaderState(serialBuffer, EntryCount(ffCount),
                                     sensorData, run, stray), now)
     IN /\ serialBuffer' = st.buf
        /\ ffCount' = st.ff
        /\ sensorData' = st.sd
        /\ run' = st.run
        /\ stray' = st.stray
        /\ parses' = st.log
        /\ peak' = st.peak
        /\ cuts' = st.cuts
        /\ latest' = Accept(latest, st.log, 1)
        /\ trace' = IF trace.on
                      THEN [trace EXCEPT !.stream = @ \o rx,
                                         !.calls = @ \o st.log,
                                         !.polls = IF rx = <<>> THEN @
                                                   ELSE @ + 1]
                      ELSE trace
  /\ rx' = <<>>
  /\ response' = <<>>
  /\ UNCHANGED <<now, sent>>

\* The Arduino transmits tok, one of at most max transmissions; it is received
\* whole while no byte is pending
Send(tok, max) ==
  /\ sent < max
  /\ rx = <<>>
  /\ rx' = tok
  /\ sent' = sent + 1
  /\ parses' = <<>>
  /\ peak' = NoPeak
  /\ cuts' = <<>>
  /\ response' = <<>>
  /\ UNCHANGED <<sensorData, serialBuffer, ffCount, now, pc, run, stray,
                 latest, trace>>

ArduinoSends == \E tok \in StreamTokens : Send(tok, MaxSends)

\* millis() advances, up to max
Advance(max) ==
  /\ now < max
  /\ now' = now + 1
  /\ parses' = <<>>
  /\ peak' = NoPeak
  /\ cuts' = <<>>
  /\ response' = <<>>
  /\ UNCHANGED <<sensorData, serialBuffer, ffCount, rx, pc, sent, run, stray,
                 latest, trace>>

Tick == Advance(MaxTime)

ArduinoSendsFrame == \E tok \in FrameTokens : Send(tok, MaxFrames)

Next == handleClient \/ readArduinoData \/ ArduinoSends \/ Tick

Spec == Init /\ [][Next]_vars

\* The same program fed complete frames only
NextFrames == handleClient \/ readArduinoData \/ ArduinoSendsFrame \/ Tick

SpecFrames == Init /\ [][NextFrames]_vars

\* The Arduino transmits tok, which joins the bytes still waiting to be read
Arrive(tok) ==
  /\ sent < MaxChunks
  /\ rx' = rx \o tok
  /\ sent' = sent + 1
  /\ parses' = <<>>
  /\ peak' = NoPeak
  /\ cuts' = <<>>
  /\ response' = <<>>
  /\ UNCHANGED <<sensorData, serialBuffer, ffCount, now, pc, run, stray,
                 latest, trace>>

ArduinoSendsChunk == \E tok \in ChunkTokens : Arrive(tok)

\* Transmissions of the specification that takes the loop one iteration at a
\* time: a message without its terminator, a lone delimiter, a terminator and
\* a whole frame
LoopTokens ==
  { Pco2 \o <<53>>,                    \* "co2V.val=5"
    FF,
    Terminator,
    Phum \o <<52,48>> \o Terminator }  \* "humV.val=40" and its terminator

ArduinoSendsInLoop == \E tok \in LoopTokens : Arrive(tok)

\* The body of one iteration of the while loop of readArduinoData: the first
\* waiting byte is read and processed, rest is what is left waiting (the
\* trace's count of polls is kept by readArduinoData only)
ReadsByte(rest) ==
  /\ pc = "readArduinoData"
  /\ rx # <<>>
  /\ \E st \in {Drain(<<Head(rx)>>, ReaderState(serialBuffer, ffCount,
                                               sensorData, run, stray), now)} :
        /\ serialBuffer' = st.buf
        /\ ffCount' = st.ff
        /\ sensorData' = st.sd
        /\ run' = st.run
        /\ stray' = st.stray
        /\ parses' = st.log
        /\ peak' = st.peak
        /\ cuts' = st.cuts
        /\ latest' = Accept(latest, st.log, 1)
        /\ trace' = IF trace.on
                      THEN [trace EXCEPT !.stream = @ \o <<Head(rx)>>,
                                         !.calls = @ \o st.log]
                      ELSE trace
  /\ rx' = rest
  /\ response' = <<>>
  /\ UNCHANGED <<now, sent, pc>>

\* An iteration that processes the waiting byte without taking it off the
\* receive buffer
readIteration_Peeks == ReadsByte(rx)

\* while (ArduinoSerial.available()) { inByte = ArduinoSerial.read(); ... }
readIteration == ReadsByte(Tail(rx))

\* The while test fails: readArduinoData returns to loop()
readReturn ==
  /\ pc = "readArduinoData"
  /\ rx = <<>>
  /\ pc' = "handleClient"
  /\ UNCHANGED <<sensorData, serialBuffer, ffCount, rx, now, sent, run, stray,
                 parses, peak, cuts, response, latest, trace>>

\* The same program with readArduinoData taken one loop iteration at a time
\* and the trace kept, bytes arriving at any moment; the processor keeps
\* executing the loop
NextLoop == handleClient \/ readIteration \/ readReturn \/ ArduinoSendsInLoop

SpecLoop ==
  /\ InitWith(TRUE)
  /\ [][NextLoop]_vars
  /\ WF_vars(readIteration)
  /\ WF_vars(readReturn)

\* The same program with the trace kept, fed pieces in any grouping
TickTraced == Advance(MaxTraceTime)

NextTraced ==
  handleClient \/ readArduinoData \/ ArduinoSendsChunk \/ TickTraced

SpecTraced == InitWith(TRUE) /\ [][NextTraced]_vars

-----------------------------------------------------------------------------
(* Properties *)

Calls == 1..Len(parses)

\* C1: after every byte the Frame Reader processes, whatever the bytes and
\* however they are split across polls, serialBuffer holds at most 100
\* characters.
C1_BufferWithinCap ==
  /\ Len(serialBuffer) <= 100
  /\ peak.len <= 100

\* C1 witness: a run longer than the cap has been received and the overflow
\* reset has left a shorter buffer behind, after the buffer had been full.
C1_Witness ==
  /\ run > BufferCap
  /\ peak.len = 100
  /\ Len(serialBuffer) > 0

\* C2 as stated: in every reachable state every field lies within its declared
\* range.
C2_FieldsInDeclaredRange ==
  \A f \in Fields : sensorData[f] \in DeclaredRange(f)

\* C2 amended: in every reachable state every field lies within its declared
\* range or still holds its startup value 0.
C2_FieldsInRangeOrStartup ==
  \A f \in Fields : sensorData[f] \in DeclaredRange(f) \/ sensorData[f] = 0

\* C2 witness: fields written at both ends of their ranges while co2 is still
\* at its startup value.
C2_Witness ==
  /\ sensorData.co2 = 0
  /\ sensorData.temp = -50
  /\ sensorData.hum = 100
  /\ sensorData.tvoc = 1999

\* C3: every field assignment parseArduinoData performs stores a value inside
\* the field's declared range, and a call changes no field to a value outside
\* its range.
C3_WritesInRange ==
  \A i \in Calls :
    /\ parses[i].wrote # <<>> =>
         parses[i].wrote[2] \in DeclaredRange(parses[i].wrote[1])
    /\ \A f \in Fields :
         \/ parses[i].after[f] = parses[i].before[f]
         \/ parses[i].after[f] \in DeclaredRange(f)

\* C3 witness: a write of a range's lowest value, received in a frame.
C3_Witness ==
  \E i \in Calls :
    /\ parses[i].wrote = <<"temp", -50>>
    /\ parses[i].before.temp = 99

\* C4: a message with a recognised prefix whose parsed integer is outside the
\* field's range leaves the whole store, lastUpdate included, unchanged.
C4_OutOfRangeLeavesStore ==
  \A i \in Calls : \A f \in Fields :
    (/\ Targets(parses[i].msg, f)
     /\ Carried(parses[i].msg, f) \notin DeclaredRange(f))
    => /\ parses[i].after = parses[i].before
       /\ parses[i].wrote = <<>>

\* C4 witness: "humV.val=101" arrives when hum holds 100 and the clock has
\* moved on since the last accepted write.
C4_Witness ==
  \E i \in Calls :
    /\ parses[i].msg = Phum \o <<49,48,49>>
    /\ parses[i].before.hum = 100
    /\ parses[i].t > parses[i].before.lastUpdate
    /\ sensorData = parses[i].before

\* C5: a message that starts with none of the six prefixes changes nothing in
\* the store.
C5_UnknownLeavesStore ==
  \A i \in Calls :
    ~Recognised(parses[i].msg)
    => /\ parses[i].after = parses[i].before
       /\ parses[i].wrote = <<>>

\* C5 witness: "temp" alone is handed to the parser after temp was set and
\* the clock has moved on.
C5_Witness ==
  \E i \in Calls :
    /\ parses[i].msg = <<116,101,109,112>>
    /\ parses[i].before.temp = 99
    /\ parses[i].t > parses[i].before.lastUpdate
    /\ sensorData = parses[i].before

\* C6: a message with a recognised prefix carrying an in-range integer v sets
\* that prefix's field to v and lastUpdate to the clock reading of the call,
\* and leaves the other five fields as they were.
C6_AcceptedSetsFieldAndTime ==
  \A i \in Calls : \A f \in Fields :
    (/\ Targets(parses[i].msg, f)
     /\ Carried(parses[i].msg, f) \in DeclaredRange(f))
    => /\ parses[i].after =
            [parses[i].before EXCEPT ![f] = Carried(parses[i].msg, f),
                                     !.lastUpdate = now]
       /\ parses[i].wrote = <<f, Carried(parses[i].msg, f)>>
       /\ parses[i].t = now

\* C6 witness: "tvocV.val=1999" is accepted at a later clock reading than the
\* previous write, with other fields holding non-zero values.
C6_Witness ==
  \E i \in Calls :
    /\ parses[i].msg = Ptvoc \o <<49,57,57,57>>
    /\ parses[i].before.tvoc = 0
    /\ parses[i].before.o3 = 1999
    /\ parses[i].before.lastUpdate < now
    /\ sensorData.tvoc = 1999
    /\ sensorData.o3 = 1999
    /\ sensorData.lastUpdate = now

\* C7 as stated: no message is handed to the parser out of a run of more than
\* 100 printable characters received without a terminator, whatever follows.
C7_NoMessageFromOverflowedRun ==
  \A i \in Calls : parses[i].run <= 100

PrintableChar(b) == b \in 32..126

\* C8 as stated: a non-delimiter byte read after one or two 0xFF emits no
\* message, returns the counter to 0 and keeps the characters accumulated
\* (appending the byte to them when it is printable).
C8_StrayDelimiterKeepsBuffer ==
  \A k \in 1..Len(cuts) :
    /\ cuts[k].calls = 0
    /\ cuts[k].ffAfter = 0
    /\ cuts[k].bufAfter =
         cuts[k].buf \o (IF PrintableChar(cuts[k].byte)
                           THEN <<cuts[k].byte>> ELSE <<>>)

\* C8 amended: a non-delimiter byte read after one or two 0xFF emits no
\* message and returns the counter to 0; the characters accumulated are kept
\* (the byte appended to them when it is printable) unless the byte is the
\* 101st printable character, which clears the buffer.
C8_StrayDelimiterKeepsBufferWithinCap ==
  \A k \in 1..Len(cuts) :
    /\ cuts[k].calls = 0
    /\ cuts[k].ffAfter = 0
    /\ cuts[k].bufAfter =
         IF PrintableChar(cuts[k].byte)
           THEN IF Len(cuts[k].buf) = 100
                  THEN <<>>
                  ELSE Append(cuts[k].buf, cuts[k].byte)
           ELSE cuts[k].buf

\* C8 witness: "tempV.val=21" was handed to the parser as one message although
\* a stray 0xFF had arrived inside it, and temp is 21.
C8_Witness ==
  \E i \in Calls :
    /\ parses[i].msg = Ptemp \o <<50,49>>
    /\ parses[i].stray
    /\ sensorData.temp = 21

\* C9: the document an export sends holds, under each field's key, the value
\* the store holds at that moment and, under lastUpdate, the clock reading at
\* the export.
C9_ExportReportsStoreAndNow ==
  \A k \in 1..Len(response) :
    /\ DOMAIN response[k] = Fields \cup {"lastUpdate"}
    /\ \A f \in Fields : response[k][f] = sensorData[f]
    /\ response[k].lastUpdate = now

\* C9 witness: an export after co2 was set to 523, at a later clock reading
\* than the store's lastUpdate.
C9_Witness ==
  /\ Len(response) = 1
  /\ response[1].co2 = 523
  /\ sensorData.lastUpdate > 0
  /\ response[1].lastUpdate > sensorData.lastUpdate

\* C10: an export changes neither the six fields, nor the store's lastUpdate,
\* nor the accumulation buffer, nor the delimiter counter (nor the bytes
\* waiting to be read).
C10_ExportIsPureRead ==
  [][response' # <<>> =>
       UNCHANGED <<sensorData, serialBuffer, ffCount, rx>>]_vars

\* C10 witness: an export made between two polls, in the middle of a message
\* and of a delimiter run, after an accepted write.
C10_Witness ==
  /\ response # <<>>
  /\ serialBuffer # <<>>
  /\ ffCount > 0
  /\ sensorData.co2 = 523

\* C11: every export reports, for each field, the value of the most recent
\* accepted message for that field among the messages completed in the polls
\* before it, or the initial 0 when there was none.
C11_ExportSeesLatestAccepted ==
  \A k \in 1..Len(response) : \A f \in Fields :
    response[k][f] = latest[f]

\* C11 witness: an export made after three messages for three fields were
\* accepted reports the three values.
C11_Witness ==
  /\ Len(response) = 1
  /\ sent = 3
  /\ response[1].co2 = 9999
  /\ response[1].temp = -50
  /\ response[1].hum = 100

\* The characters of msg after the prefix of field f
Suffix(msg, f) == SubSeq(msg, Len(DeclaredPrefix(f)) + 1, Len(msg))

\* s holds no decimal digit
NonNumeric(s) == \A k \in 1..Len(s) : s[k] \notin 48..57

Valid(msg) ==
  \E f \in Fields : Targets(msg, f) /\ Carried(msg, f) \in DeclaredRange(f)

\* Two successive parseArduinoData calls with the same valid message
Repeats == {i \in 1..(Len(trace.calls) - 1) :
              /\ trace.calls[i].msg = trace.calls[i + 1].msg
              /\ Valid(trace.calls[i].msg)}

\* The second call of a repeat leaves every field as the first left it
SameValues(i) ==
  \A f \in Fields : trace.calls[i + 1].after[f] = trace.calls[i].after[f]

\* C13 as stated: the same valid message fed twice in succession leaves the
\* targeted field and the other fields as after the first acceptance, and the
\* second lastUpdate is later than the first.
C13_RepeatAdvancesLastUpdate ==
  \A i \in Repeats :
    /\ SameValues(i)
    /\ trace.calls[i + 1].after.lastUpdate > trace.calls[i].after.lastUpdate

\* C13 amended: the same valid message fed twice in succession leaves the
\* targeted field and the other fields as after the first acceptance, and
\* each acceptance sets lastUpdate to the clock reading at that acceptance, so
\* that the second lastUpdate is not earlier than the first (the model's clock
\* does not wrap) and equals it when the clock has not advanced in between.
C13_RepeatRestampsLastUpdate ==
  \A i \in Repeats :
    /\ SameValues(i)
    /\ trace.calls[i].after.lastUpdate = trace.calls[i].t
    /\ trace.calls[i + 1].after.lastUpdate = trace.calls[i + 1].t
    /\ trace.calls[i + 1].after.lastUpdate >= trace.calls[i].after.lastUpdate

\* C13 witness: "humV.val=40" accepted twice in succession at two different
\* clock readings, after temp had been set.
C13_Witness ==
  /\ Len(trace.calls) = 3
  /\ trace.calls[2].msg = Phum \o <<52,48>>
  /\ trace.calls[3].msg = Phum \o <<52,48>>
  /\ trace.calls[3].t > trace.calls[2].t
  /\ sensorData.hum = 40
  /\ sensorData.temp = -7

\* The decimal rendering of an integer, as the Arduino prints it
RECURSIVE Digits(_)
Digits(n) == IF n < 10 THEN <<48 + n>> ELSE Digits(n \div 10) \o <<48 + (n % 10)>>

Decimal(v) == IF v < 0 THEN <<45>> \o Digits(-v) ELSE Digits(v)

\* The two ends of each declared range
RoundTripValues(f) ==
  CASE f = "co2" -> {1, 9999}
    [] f = "pm25" -> {0, 1999}
    [] f = "o3" -> {0, 1999}
    [] f = "temp" -> {-50, 99}
    [] f = "hum" -> {0, 100}
    [] f = "tvoc" -> {0, 1999}

\* A poll that starts with an empty buffer and a zero counter and reads exactly
\* the frame of field f carrying v
PollsFrame(f, v) ==
  /\ pc = "readArduinoData" /\ pc' = "handleClient"
  /\ serialBuffer = <<>> /\ ffCount = 0
  /\ rx = DeclaredPrefix(f) \o Decimal(v) \o Terminator

\* C14: from an empty buffer and a zero counter, the bytes of "<prefix>" and
\* the decimal text of an in-range v followed by three 0xFF make the field of
\* that prefix equal v, stamp lastUpdate with the clock, and make v the value
\* last accepted for the field; an export reports for every field the value
\* last accepted for it.
C14_FrameRoundTrip ==
  [][ /\ \A f \in Fields : \A v \in RoundTripValues(f) :
           PollsFrame(f, v) => /\ sensorData'[f] = v
                               /\ sensorData'.lastUpdate = now
                               /\ latest'[f] = v
      /\ \A k \in 1..Len(response') : \A f \in Fields :
           response'[k][f] = latest[f] ]_vars

\* C14 witness: the frames "pm25V.val=1999" and "tempV.val=99" have been read
\* and an export reports both values.
C14_Witness ==
  /\ Len(response) = 1
  /\ latest.pm25 = 1999 /\ latest.temp = 99
  /\ response[1].pm25 = 1999 /\ response[1].temp = 99

\* A step of the program in which no transmission arrives
NoArrival == sent' = sent

\* C15: inside readArduinoData, a step with a byte waiting takes exactly the
\* first waiting byte and stays in the loop; a step with no byte waiting
\* returns to loop() and changes neither the store, the buffer, the counter
\* nor the receive buffer; and readArduinoData, once entered, always returns
\* to loop(), whose next step serves the web clients.
C15_PollTerminates ==
  /\ [][ (pc = "readArduinoData" /\ NoArrival) =>
           IF rx = <<>>
             THEN /\ pc' = "handleClient"
                  /\ UNCHANGED <<sensorData, serialBuffer, ffCount, rx>>
             ELSE /\ pc' = "readArduinoData"
                  /\ rx' = Tail(rx) ]_vars
  /\ (pc = "readArduinoData") ~> (pc = "handleClient")

\* C15 witness: readArduinoData has returned after draining a whole frame and
\* a piece of the next message, byte by byte.
C15_Witness ==
  /\ pc = "handleClient"
  /\ rx = <<>>
  /\ sent = 2
  /\ sensorData.hum = 40
  /\ serialBuffer = Pco2 \o <<53>>

\* An iteration of the while loop of readArduinoData on the byte b
Iterates(b) ==
  /\ pc = "readArduinoData"
  /\ rx # <<>>
  /\ Head(rx) = b
  /\ rx' = Tail(rx)

\* C16: the iteration on the third consecutive 0xFF with a non-empty buffer
\* calls parseArduinoData once, with the buffer's contents, and leaves the
\* buffer empty and the counter 0; the contents are the printable characters
\* in arrival order: an iteration on any byte leaves the buffer as it was,
\* with the byte appended, or empty.
C16_TerminatorHandsBuffer ==
  [][ /\ (Iterates(Delimiter) /\ ffCount = 2 /\ serialBuffer # <<>>) =>
           /\ Len(parses') = 1
           /\ parses'[1].msg = serialBuffer
           /\ serialBuffer' = <<>>
           /\ ffCount' = 0
      /\ \A b \in 0..255 :
           Iterates(b) =>
             /\ serialBuffer' \in {serialBuffer, Append(serialBuffer, b), <<>>}
             /\ (PrintableChar(b) /\ Len(serialBuffer) < 100)
                  => serialBuffer' = Append(serialBuffer, b) ]_vars

\* C16 witness: "co2V.val=5" and a terminator were read byte by byte, the one
\* call of the parser received "co2V.val=5", and the buffer is empty and the
\* counter 0.
C16_Witness ==
  /\ trace.stream = Pco2 \o <<53>> \o Terminator
  /\ Len(trace.calls) = 1
  /\ trace.calls[1].msg = Pco2 \o <<53>>
  /\ Len(parses) = 1
  /\ serialBuffer = <<>>
  /\ ffCount = 0
  /\ sensorData.co2 = 5

\* C17: an iteration on a 0xFF while the buffer is empty calls no parser,
\* leaves the store unchanged and the buffer empty, and steps the counter
\* 0, 1, 2 and back to 0 on the third.
C17_EmptyTerminatorIsNoOp ==
  [][ (Iterates(Delimiter) /\ serialBuffer = <<>>) =>
        /\ parses' = <<>>
        /\ sensorData' = sensorData
        /\ serialBuffer' = <<>>
        /\ ffCount' = (IF ffCount = 2 THEN 0 ELSE ffCount + 1) ]_vars

\* C17 witness: a frame and two more terminators have been read; the parser
\* was called for the frame only and the buffer is empty and the counter 0.
C17_Witness ==
  /\ trace.stream = Phum \o <<52,48>> \o Terminator \o Terminator \o Terminator
  /\ Len(trace.calls) = 1
  /\ sensorData.hum = 40
  /\ serialBuffer = <<>>
  /\ ffCount = 0

\* C18: every message handed to the parser is non-empty, at most 100
\* characters long and made of characters 0x20..0x7E only; so is the buffer;
\* and a message received as at most 100 printable characters before its
\* terminator is handed over with all of them.
C18_MessagesPrintableWithinCap ==
  /\ \A i \in Calls :
       /\ Len(parses[i].msg) \in 1..100
       /\ \A k \in 1..Len(parses[i].msg) : PrintableChar(parses[i].msg[k])
       /\ parses[i].run <= 100 => Len(parses[i].msg) = parses[i].run
  /\ \A k \in 1..Len(serialBuffer) : PrintableChar(serialBuffer[k])

\* C18 witness: a message of exactly 100 printable characters was handed to
\* the parser whole.
C18_Witness ==
  \E i \in Calls : parses[i].msg = Filler /\ parses[i].run = 100

\* C19: after every byte the reader has processed the counter is 0, 1 or 2;
\* it is 0 after every byte other than 0xFF and after every iteration that
\* emptied the buffer, for the parser or on overflow.
C19_CounterBelowThree ==
  /\ ffCount \in 0..2
  /\ peak.ff \in 0..2
  /\ peak.ffOther \in {-1, 0}
  /\ peak.ffCleared \in {-1, 0}

\* C19 witness: a poll whose iterations left the counter at 2 and then, on
\* the third 0xFF, handed a message to the parser and left the counter at 0.
C19_Witness ==
  /\ peak.ff = 2
  /\ peak.ffCleared = 0
  /\ Len(parses) = 1
  /\ ffCount = 0

\* readArduinoData called once, from the initial state, on all the bytes read
\* so far
OneBatch ==
  Drain(trace.stream, ReaderState(<<>>, 0, InitSensorData, 0, FALSE), 0)

\* C20: however the bytes read so far were split into polls, the messages
\* handed to the parser, the six field values, the buffer and the counter are
\* those of a single readArduinoData call on the whole byte sequence.
C20_ChunkingIndependent ==
  \A one \in {OneBatch} :
    /\ Len(trace.calls) = Len(one.log)
    /\ \A i \in 1..Len(trace.calls) : trace.calls[i].msg = one.log[i].msg
    /\ \A f \in Fields : sensorData[f] = one.sd[f]
    /\ serialBuffer = one.buf
    /\ ffCount = one.ff

\* C20 witness: "co2V.val=5" and a terminator were read in three polls, the
\* terminator split between the second and the third, and co2 is 5.
C20_Witness ==
  /\ trace.stream = Pco2 \o <<53>> \o Terminator
  /\ trace.polls = 3
  /\ Len(trace.calls) = 1
  /\ sensorData.co2 = 5

====
